---- MODULE Spec2Model ----
(***************************************************************************)
(* A model of the clip pipeline of main.py: the request handler            *)
(* create_clips, the publish helper _ensure_public_link, the /clips        *)
(* middleware link_generated_dirs and the subprocess wrapper _run.         *)
(*                                                                         *)
(* Times are exact multiples of one tick; TicksPerMs ticks make one        *)
(* millisecond, so that durations finer than the 3 decimals kept by        *)
(* round(x, 3) exist in the model.                                         *)
(***************************************************************************)
EXTENDS Integers, Sequences, FiniteSets, TLC

\* ------------------------------------------------------------------ bounds

TicksPerMs == 5
MaxCount == 2
MaxRetrievals == 1

Ms == TicksPerMs
Sec == 1000 * Ms

\* ------------------------------------------------------- program constants

MinClips == 1
MaxClips == 20
OneMinute == 60 * Sec
MinDuration == Ms

TMP_PARENT == <<"tmp">>
PUBLIC_ROOT == TMP_PARENT \o <<"ytclips_public">>

\* ------------------------------------------------------------ participants

Reqs == {"r1", "r2"}
Mids == {"m1", "m2"}
Callers == Reqs \cup Mids

\* Directory names tempfile.mkdtemp(prefix="ytclip_") can hand out; a
\* retrieval path can carry any of them, handed out or not.
Names == {"ytclip_a", "ytclip_b"}

\* ------------------------------------------------------------------ values

Min(a, b) == IF a <= b THEN a ELSE b
Max(a, b) == IF a >= b THEN a ELSE b

NoPath == <<>>
Basename(p) == p[Len(p)]
Join(p, x) == Append(p, x)

RECURSIVE Digits(_)
Digits(n) == IF n < 10 THEN <<n>> ELSE Append(Digits(n \div 10), n % 10)

\* format(n, "02d")
Fmt02d(n) == IF n < 10 THEN <<0, n>> ELSE Digits(n)

SourceFile == [stem |-> "source", num |-> <<>>, ext |-> ".mp4"]
ClipFile(n) == [stem |-> "clip_", num |-> Fmt02d(n), ext |-> ".mp4"]

\* out_path of loop index i (0-based): clip_{i+1:02d}.mp4
OutNameFromIndex(i) == ClipFile(i)
OutName(i) == ClipFile(i + 1)

\* round(x, 3): to the nearest millisecond, a tie to the even one
Round3(x) ==
    LET q == x \div Ms
        r == x % Ms
    IN  IF 2 * r < Ms THEN q * Ms
        ELSE IF 2 * r > Ms THEN (q + 1) * Ms
        ELSE IF q % 2 = 0 THEN q * Ms ELSE (q + 1) * Ms

\* ------------------------------------------------------------- filesystem

NoDir == [exists |-> FALSE, files |-> {}]
NoEntry == [kind |-> "none", target |-> NoPath, files |-> {}]

VARIABLES
    dirs,       \* TMP_PARENT: directory name -> [exists, files]
    pub,        \* PUBLIC_ROOT: entry name -> none | symlink to a path | copied tree
    fsSymlink,  \* the filesystem permits os.symlink
    fsCopy      \* the filesystem permits shutil.copytree into PUBLIC_ROOT

VARIABLES
    pc,         \* position of every request and of every middleware call
    call,       \* the running _ensure_public_link call of a caller: [arg, seq, ret]
    returned,   \* workspace name -> the path its first returned publish call gave
    raced,      \* the names for which two publish calls have run at the same time
    budget,     \* retrieval requests a middleware instance may still receive
    mwPath,     \* the URL path of the retrieval request being handled
    served      \* the status of the last retrieval response

VARIABLES
    req,        \* payload: [count, strategy, start]
    workdir,    \* the path mkdtemp returned
    info,       \* the metadata extract_info returned
    total,      \* resolved duration, in ticks
    probe,      \* the duration probe: [ran, exit, err]
    starts,     \* the planned start offsets
    results,    \* the ClipInfo list built so far
    cmds,       \* the extraction commands handed to _run, in order
    response,   \* what the caller of the request received
    stages      \* the pipeline stages the request went through, in order

fsVars == <<dirs, pub, fsSymlink, fsCopy>>
callVars == <<pc, call, returned, raced, budget, mwPath, served>>
reqVars == <<req, workdir, info, total, probe, starts, results, cmds, response, stages>>
vars == <<fsVars, callVars, reqVars>>

DirOf(path) == dirs[Basename(path)]

\* os.path.exists: follows a symbolic link, so a dangling link does not exist
PathExists(path) ==
    IF Len(path) = Len(PUBLIC_ROOT) + 1 /\ SubSeq(path, 1, Len(PUBLIC_ROOT)) = PUBLIC_ROOT
    THEN LET e == pub[Basename(path)]
         IN  \/ e.kind = "copy"
             \/ e.kind = "symlink" /\ DirOf(e.target).exists
    ELSE DirOf(path).exists

\* os.symlink(target, link) fails when the filesystem refuses links and when
\* anything, a dangling link included, already has the name
SymlinkOk(link) == fsSymlink /\ pub[Basename(link)].kind = "none"

\* the same for copytree(src, dst, dirs_exist_ok=True)
CopyOkExistOk(src, link) == fsCopy /\ DirOf(src).exists

\* shutil.copytree(src, dst) fails when src is missing, when dst already has
\* the name, and when the filesystem refuses the copy
CopyOk(src, link) ==
    /\ fsCopy
    /\ DirOf(src).exists
    /\ pub[Basename(link)].kind = "none"

\* the files StaticFiles finds under PUBLIC_ROOT/name
PublicFiles(name) ==
    LET e == pub[name]
    IN  IF e.kind = "copy" THEN e.files
        ELSE IF e.kind = "symlink" /\ DirOf(e.target).exists THEN DirOf(e.target).files
        ELSE {}

\* ------------------------------------------------------------------ inputs

Counts == {MinClips - 1} \cup (MinClips..MaxCount) \cup {MaxClips + 1}
Strategies == {"sequential", "random", "shuffle"}
StartsIn == {<<>>, <<-Sec>>, <<50 * Sec>>}

\* what extract_info gives: nothing (it raised), a dict without a duration,
\* a duration that float() refuses, or a number
NoInfo == [kind |-> "unset", v |-> 0]
MetaVals ==
    {[kind |-> "none", v |-> 0], [kind |-> "nodur", v |-> 0], [kind |-> "bad", v |-> 0]}
    \cup {[kind |-> "num", v |-> x] :
            x \in {0, -5 * Sec, 3, 45 * Sec, 60 * Sec + 4, 150 * Sec, 300 * Sec}}

\* payload.url: a video, told apart by what extract_info gives for it
Urls == {[video |-> v] : v \in MetaVals}
ExtractInfo(url) == url.video

Payloads == [url : Urls, count : Counts, strategy : Strategies, start : StartsIn]
NoReq == [url |-> [video |-> NoInfo], count |-> 0, strategy |-> "", start |-> <<>>]

\* stderr of a tool: a message and, in the probe's case, the digits of a
\* "Duration: HH:MM:SS.fraction" field (<<>> when the text has no such field)
Quiet == [msg |-> "", dur |-> <<>>]
ProbeTexts ==
    {[msg |-> "At least one output file must be specified", dur |-> d] :
        d \in {<<>>,
               <<<<0, 0>>, <<0, 2>>, <<0, 3>>, <<5, 0>>>>,
               <<<<0, 0>>, <<0, 0>>, <<0, 0>>, <<0, 0>>>>}}
ExtractDiag == [msg |-> "Invalid data found when processing input", dur |-> <<>>]
ExitCodes == {0, 1}

\* the draws of random.random() the model tries, as fractions
Draws == {<<1, 5>>, <<4, 5>>}

\* ----------------------------------------------------------- pure helpers

RECURSIVE DigitsVal(_)
DigitsVal(ds) ==
    IF ds = <<>> THEN 0
    ELSE 10 * DigitsVal(SubSeq(ds, 1, Len(ds) - 1)) + ds[Len(ds)]

RECURSIVE Pow10(_)
Pow10(n) == IF n = 0 THEN 1 ELSE 10 * Pow10(n - 1)

\* re.search(r"Duration: (\d+):(\d+):(\d+\.?\d*)", err)
HasDuration(err) == err.dur # <<>>

\* h * 3600 + mnt * 60 + s of the matched groups
ParseDuration(err) ==
    LET h == DigitsVal(err.dur[1])
        mnt == DigitsVal(err.dur[2])
        s == DigitsVal(err.dur[3]) * Sec
                + (DigitsVal(err.dur[4]) * Sec) \div Pow10(Len(err.dur[4]))
    IN  h * 3600 * Sec + mnt * 60 * Sec + s

\* info.get("duration") when truthy and convertible, else 0.0
MetaDurationIgnored(i) == 0
MetaDuration(i) == IF i.kind = "num" /\ i.v # 0 THEN i.v ELSE 0

\* _run: a non-zero exit status raises HTTPException(500) carrying stderr
RunNoCheck(exit, err) ==
    [raised |-> FALSE, status |-> 0, detail |-> <<>>, err |-> err]
Run(exit, err) ==
    IF exit # 0
    THEN [raised |-> TRUE, status |-> 500, detail |-> <<"Command failed", err>>, err |-> err]
    ELSE [raised |-> FALSE, status |-> 0, detail |-> <<>>, err |-> err]

MaxStart(t) == Max(0, t - OneMinute)

\* random.uniform(a, b) for the draw u of random.random()
Uniform(a, b, u) == a + ((b - a) * u[1]) \div u[2]

RandomStart(ms, u) == Round3(Uniform(0, ms, u))

\* the i-th (0-based) sequential offset
SequentialStartNoClamp(base, i, ms) == Round3(base + i * OneMinute)
SequentialStart(base, i, ms) == Round3(Min(base + i * OneMinute, ms))

\* the list `starts` for the draws us (used by the random strategy only)
PlanStarts(p, t, us) ==
    LET ms == MaxStart(t)
        base == IF p.start # <<>> THEN p.start[1] ELSE 0
    IN  IF p.strategy = "random"
        THEN [k \in 1..p.count |-> RandomStart(ms, us[k])]
        ELSE [k \in 1..p.count |-> SequentialStart(base, k - 1, ms)]

\* the -t argument of the extraction command
ReqDurationNoCap(t, s) == Max(MinDuration, t - s)
ReqDuration(t, s) == Min(OneMinute, Max(MinDuration, t - s))

\* the duration field of a ClipInfo
RepDurationNoCap(t, s) == t - s
RepDuration(t, s) == Min(OneMinute, t - s)

ClipUrl(wd, out) == [root |-> "clips", dir |-> Basename(wd), file |-> out]

\* link = os.path.join(PUBLIC_ROOT, os.path.basename(workdir))
PublicLink(wd) == Join(PUBLIC_ROOT, Basename(wd))

\* ClipRequest's field constraints
ValidPayloadCountOnly(p) == p.count >= MinClips /\ p.count <= MaxClips
ValidPayload(p) ==
    /\ p.count >= MinClips
    /\ p.count <= MaxClips
    /\ (p.start = <<>> \/ p.start[1] >= 0)

\* --------------------------------------------------------------- responses

NoResponse == [kind |-> "none", status |-> 0, detail |-> <<>>, body |-> <<>>]
Error(status, detail) == [kind |-> "error", status |-> status, detail |-> detail, body |-> <<>>]
Ok(body) == [kind |-> "ok", status |-> 200, detail |-> <<>>, body |-> body]

Stage(st, i) == [st |-> st, i |-> i]
NoCall == [arg |-> NoPath, seq |-> FALSE, ret |-> NoPath]
NoProbe == [ran |-> FALSE, exit |-> 0, err |-> Quiet]

\* ------------------------------------------------------------ initial state

\* The state after the module is loaded (PUBLIC_ROOT made, nothing in it),
\* with the requests of `active` received and `mids` ready to take retrievals.
InitWith(active, payloads, mids) ==
    /\ dirs = [n \in Names |-> NoDir]
    /\ pub = [n \in Names |-> NoEntry]
    /\ fsSymlink \in BOOLEAN
    /\ fsCopy \in BOOLEAN
    /\ pc = [c \in Callers |-> IF c \in active THEN "received" ELSE "idle"]
    /\ call = [c \in Callers |-> NoCall]
    /\ returned = [n \in Names |-> NoPath]
    /\ raced = {}
    /\ budget = [m \in Mids |-> IF m \in mids THEN MaxRetrievals ELSE 0]
    /\ mwPath = [m \in Mids |-> <<>>]
    /\ served = [m \in Mids |-> 0]
    /\ req \in [Reqs -> payloads \cup {NoReq}]
    /\ \A r \in Reqs : (req[r] = NoReq) <=> (r \notin active)
    /\ workdir = [r \in Reqs |-> NoPath]
    /\ info = [r \in Reqs |-> NoInfo]
    /\ total = [r \in Reqs |-> 0]
    /\ probe = [r \in Reqs |-> NoProbe]
    /\ starts = [r \in Reqs |-> <<>>]
    /\ results = [r \in Reqs |-> <<>>]
    /\ cmds = [r \in Reqs |-> <<>>]
    /\ response = [r \in Reqs |-> NoResponse]
    /\ stages = [r \in Reqs |-> <<>>]

Init == InitWith({"r1"}, Payloads, {"m1"})

\* two requests in flight at once, and one request beside two retrievals,
\* each over a few payloads
PayloadsSmall ==
    {[url |-> [video |-> [kind |-> "num", v |-> 45 * Sec]], count |-> 1,
      strategy |-> "sequential", start |-> <<>>],
     [url |-> [video |-> [kind |-> "nodur", v |-> 0]], count |-> 1,
      strategy |-> "random", start |-> <<>>]}

InitConc == InitWith({"r1", "r2"}, PayloadsSmall, {"m1"})
InitRace == InitWith({"r1"}, PayloadsSmall, {"m1", "m2"})

\* --------------------------------------------------------------- create_clips

Fail(r, status, detail) ==
    /\ pc' = [pc EXCEPT ![r] = "failed"]
    /\ response' = [response EXCEPT ![r] = Error(status, detail)]

\* pydantic validates the body before the handler runs
Validate(r) ==
    /\ pc[r] = "received"
    /\ IF ValidPayload(req[r])
       THEN pc' = [pc EXCEPT ![r] = "setup"] /\ UNCHANGED response
       ELSE /\ pc' = [pc EXCEPT ![r] = "rejected"]
            /\ response' = [response EXCEPT ![r] = Error(422, <<"validation error">>)]
    /\ UNCHANGED <<fsVars, call, returned, raced, budget, mwPath, served>>
    /\ UNCHANGED <<req, workdir, info, total, probe, starts, results, cmds, stages>>

\* the names tempfile.mkdtemp can create: it makes the directory atomically
\* and draws again when the name is taken
AnyNames == Names
FreeNames == {n \in Names : ~dirs[n].exists}

\* the lazy imports, the ffmpeg check and tempfile.mkdtemp
Setup(r) ==
    /\ pc[r] = "setup"
    /\ \E deps \in BOOLEAN :
         IF ~deps
         THEN /\ Fail(r, 500, <<"dependency not available">>)
              /\ UNCHANGED <<dirs, workdir>>
         ELSE \E n \in FreeNames :
                /\ dirs' = [dirs EXCEPT ![n] = [exists |-> TRUE, files |-> {}]]
                /\ workdir' = [workdir EXCEPT ![r] = Join(TMP_PARENT, n)]
                /\ pc' = [pc EXCEPT ![r] = "meta"]
                /\ UNCHANGED response
    /\ UNCHANGED <<pub, fsSymlink, fsCopy, call, returned, raced, budget, mwPath, served>>
    /\ UNCHANGED <<req, info, total, probe, starts, results, cmds, stages>>

\* extract_info(download=False); an exception leaves info = None
Meta(r) ==
    /\ pc[r] = "meta"
    /\ info' = [info EXCEPT ![r] = ExtractInfo(req[r].url)]
    /\ pc' = [pc EXCEPT ![r] = "download"]
    /\ UNCHANGED <<fsVars, call, returned, raced, budget, mwPath, served>>
    /\ UNCHANGED <<req, workdir, total, probe, starts, results, cmds, response, stages>>

\* ydl.download into workdir/source.mp4
Download(r) ==
    /\ pc[r] = "download"
    /\ stages' = [stages EXCEPT ![r] = Append(@, Stage("Downloading", 0))]
    /\ \E ok \in BOOLEAN :
         IF ok
         THEN /\ dirs' = [dirs EXCEPT ![Basename(workdir[r])].files = @ \cup {SourceFile}]
              /\ pc' = [pc EXCEPT ![r] = "duration"]
              /\ UNCHANGED response
         ELSE /\ Fail(r, 400, <<"Download failed">>)
              /\ UNCHANGED dirs
    /\ UNCHANGED <<pub, fsSymlink, fsCopy, call, returned, raced, budget, mwPath, served>>
    /\ UNCHANGED <<req, workdir, info, total, probe, starts, results, cmds>>

\* total after the probe fallback ran with this exit status and stderr: the
\* exception _run raises is swallowed by the handler's except clause
ProbedTotal(t, exit, err) ==
    LET run == Run(exit, err)
    IN  IF run.raised THEN t
        ELSE IF HasDuration(run.err) THEN ParseDuration(run.err)
        ELSE t

\* if total <= 0: raise HTTPException(400, "Invalid video duration")
DurationInvalidNegativeOnly(t) == t < 0
DurationInvalid(t) == t <= 0

\* metadata first, then ffmpeg -i on the downloaded file
ResolveDuration(r) ==
    /\ pc[r] = "duration"
    /\ LET t0 == MetaDuration(info[r])
       IN  \E exit \in (IF t0 <= 0 THEN ExitCodes ELSE {0}) :
           \E err \in (IF t0 <= 0 THEN ProbeTexts ELSE {Quiet}) :
             LET t == IF t0 <= 0 THEN ProbedTotal(t0, exit, err) ELSE t0
             IN  /\ probe' = [probe EXCEPT ![r] =
                        IF t0 <= 0 THEN [ran |-> TRUE, exit |-> exit, err |-> err] ELSE @]
                 /\ total' = [total EXCEPT ![r] = t]
                 /\ IF DurationInvalid(t)
                    THEN /\ Fail(r, 400, <<"Invalid video duration">>)
                         /\ UNCHANGED stages
                    ELSE /\ pc' = [pc EXCEPT ![r] = "plan"]
                         /\ stages' = [stages EXCEPT ![r] =
                                          Append(@, Stage("DurationResolved", 0))]
                         /\ UNCHANGED response
    /\ UNCHANGED <<fsVars, call, returned, raced, budget, mwPath, served>>
    /\ UNCHANGED <<req, workdir, info, starts, results, cmds>>

\* the start times, then the call of _ensure_public_link(workdir)
Plan(r) ==
    /\ pc[r] = "plan"
    /\ \E us \in (IF req[r].strategy = "random"
                  THEN [1..req[r].count -> Draws]
                  ELSE {[k \in 1..req[r].count |-> <<0, 1>>]}) :
         starts' = [starts EXCEPT ![r] = PlanStarts(req[r], total[r], us)]
    /\ stages' = [stages EXCEPT ![r] = Append(@, Stage("Planned", 0))]
    /\ call' = [call EXCEPT ![r] = [arg |-> workdir[r], seq |-> FALSE, ret |-> NoPath]]
    /\ pc' = [pc EXCEPT ![r] = "check"]
    /\ UNCHANGED <<fsVars, returned, raced, budget, mwPath, served>>
    /\ UNCHANGED <<req, workdir, info, total, probe, results, cmds, response>>

\* ------------------------------------------------------- _ensure_public_link

\* `return link`: the pipeline goes on to the extraction loop, the middleware
\* to call_next
EnsureDone(c, link) ==
    /\ pc' = [pc EXCEPT ![c] = IF c \in Reqs THEN "extract" ELSE "serve"]
    /\ returned' = IF returned[Basename(call[c].arg)] = NoPath /\ DirOf(call[c].arg).exists
                   THEN [returned EXCEPT ![Basename(call[c].arg)] = link]
                   ELSE returned
    /\ raced' = IF \E d \in Callers \ {c} :
                       call[d].arg = call[c].arg /\ pc[d] \in {"symlink", "recheck", "copy"}
                THEN raced \cup {Basename(call[c].arg)}
                ELSE raced
    /\ stages' = IF c \in Reqs
                 THEN [stages EXCEPT ![c] = Append(@, Stage("Published", 0))]
                 ELSE stages

\* the same with `return link` indented into the `if not os.path.exists` block
EnsureCheckRetInIf(c) ==
    /\ pc[c] = "check"
    /\ LET wd == call[c].arg
           link == PublicLink(wd)
           sq == returned[Basename(wd)] # NoPath
       IN  IF PathExists(link)
           THEN /\ call' = [call EXCEPT ![c] = [arg |-> wd, seq |-> sq, ret |-> NoPath]]
                /\ EnsureDone(c, NoPath)
           ELSE /\ call' = [call EXCEPT ![c] = [arg |-> wd, seq |-> sq, ret |-> NoPath]]
                /\ pc' = [pc EXCEPT ![c] = "symlink"]
                /\ UNCHANGED <<returned, raced, stages>>
    /\ UNCHANGED <<fsVars, budget, mwPath, served>>
    /\ UNCHANGED <<req, workdir, info, total, probe, starts, results, cmds, response>>

\* if not os.path.exists(link)
EnsureCheck(c) ==
    /\ pc[c] = "check"
    /\ LET wd == call[c].arg
           link == PublicLink(wd)
           sq == returned[Basename(wd)] # NoPath
       IN  IF PathExists(link)
           THEN /\ call' = [call EXCEPT ![c] = [arg |-> wd, seq |-> sq, ret |-> link]]
                /\ EnsureDone(c, link)
           ELSE /\ call' = [call EXCEPT ![c] = [arg |-> wd, seq |-> sq, ret |-> NoPath]]
                /\ pc' = [pc EXCEPT ![c] = "symlink"]
                /\ UNCHANGED <<returned, raced, stages>>
    /\ UNCHANGED <<fsVars, budget, mwPath, served>>
    /\ UNCHANGED <<req, workdir, info, total, probe, starts, results, cmds, response>>

\* os.symlink(workdir, link); its exception leads to the fallback
EnsureSymlink(c) ==
    /\ pc[c] = "symlink"
    /\ LET wd == call[c].arg
           link == PublicLink(wd)
       IN  IF SymlinkOk(link)
           THEN /\ pub' = [pub EXCEPT ![Basename(link)] =
                              [kind |-> "symlink", target |-> wd, files |-> {}]]
                /\ call' = [call EXCEPT ![c].ret = link]
                /\ EnsureDone(c, link)
           ELSE /\ pc' = [pc EXCEPT ![c] = "recheck"]
                /\ UNCHANGED <<pub, call, returned, raced, stages>>
    /\ UNCHANGED <<dirs, fsSymlink, fsCopy, budget, mwPath, served>>
    /\ UNCHANGED <<req, workdir, info, total, probe, starts, results, cmds, response>>

\* the fallback's own `if not os.path.exists(link)`
EnsureRecheck(c) ==
    /\ pc[c] = "recheck"
    /\ LET link == PublicLink(call[c].arg)
       IN  IF PathExists(link)
           THEN /\ call' = [call EXCEPT ![c].ret = link]
                /\ EnsureDone(c, link)
           ELSE /\ pc' = [pc EXCEPT ![c] = "copy"]
                /\ UNCHANGED <<call, returned, raced, stages>>
    /\ UNCHANGED <<fsVars, budget, mwPath, served>>
    /\ UNCHANGED <<req, workdir, info, total, probe, starts, results, cmds, response>>

\* shutil.copytree(workdir, link); its exception is passed over
EnsureCopy(c) ==
    /\ pc[c] = "copy"
    /\ LET wd == call[c].arg
           link == PublicLink(wd)
       IN  /\ pub' = IF CopyOk(wd, link)
                     THEN [pub EXCEPT ![Basename(link)] =
                              [kind |-> "copy", target |-> NoPath, files |-> DirOf(wd).files]]
                     ELSE pub
           /\ call' = [call EXCEPT ![c].ret = link]
           /\ EnsureDone(c, link)
    /\ UNCHANGED <<dirs, fsSymlink, fsCopy, budget, mwPath, served>>
    /\ UNCHANGED <<req, workdir, info, total, probe, starts, results, cmds, response>>

\* ------------------------------------------------------ the extraction loop

\* the workspace after one ffmpeg run: the output file when it exited 0,
\* nothing new and nothing removed when it did not
DirsAfterExtractCleanup(wd, out, raised) ==
    IF raised
    THEN [dirs EXCEPT ![Basename(wd)] = NoDir]
    ELSE [dirs EXCEPT ![Basename(wd)].files = @ \cup {out}]
DirsAfterExtract(wd, out, raised) ==
    IF raised
    THEN dirs
    ELSE [dirs EXCEPT ![Basename(wd)].files = @ \cup {out}]

\* one iteration of `for i, s in enumerate(starts)`
Extract(r) ==
    /\ pc[r] = "extract"
    /\ Len(results[r]) < Len(starts[r])
    /\ LET i == Len(results[r])
           s == starts[r][i + 1]
           out == OutName(i)
       IN  \E exit \in ExitCodes :
             LET run == Run(exit, IF exit = 0 THEN Quiet ELSE ExtractDiag)
             IN  /\ cmds' = [cmds EXCEPT ![r] = Append(@,
                                [ss |-> s, t |-> ReqDuration(total[r], s),
                                 out |-> out, exit |-> exit])]
                 /\ stages' = [stages EXCEPT ![r] = Append(@, Stage("Extracting", i + 1))]
                 /\ dirs' = DirsAfterExtract(workdir[r], out, run.raised)
                 /\ IF run.raised
                    THEN /\ Fail(r, run.status, run.detail)
                         /\ UNCHANGED results
                    ELSE /\ results' = [results EXCEPT ![r] = Append(@,
                                [index |-> i + 1, start |-> s,
                                 duration |-> RepDuration(total[r], s),
                                 url |-> ClipUrl(workdir[r], out)])]
                         /\ UNCHANGED <<pc, response>>
    /\ UNCHANGED <<pub, fsSymlink, fsCopy, call, returned, raced, budget, mwPath, served>>
    /\ UNCHANGED <<req, workdir, info, total, probe, starts>>

\* return results
Return(r) ==
    /\ pc[r] = "extract"
    /\ Len(results[r]) = Len(starts[r])
    /\ response' = [response EXCEPT ![r] = Ok(results[r])]
    /\ stages' = [stages EXCEPT ![r] = Append(@, Stage("Done", 0))]
    /\ pc' = [pc EXCEPT ![r] = "done"]
    /\ UNCHANGED <<fsVars, call, returned, raced, budget, mwPath, served>>
    /\ UNCHANGED <<req, workdir, info, total, probe, starts, results, cmds>>

\* ------------------------------------------------------ link_generated_dirs

\* the URL paths of the retrieval requests the model sends
MwPaths == {<<"clips", n, OutName(0)>> : n \in Names} \cup {<<"clips", "ytclip_a">>}

\* path.startswith("/clips/") and len(path.split("/")) >= 4
NamesWorkdir(path) == Len(path) >= 3 /\ path[1] = "clips"

\* what StaticFiles answers for the path
ServeStatus(path) ==
    IF Len(path) = 3 /\ path[1] = "clips" /\ path[3] \in PublicFiles(path[2])
    THEN 200 ELSE 404

\* the middleware up to its call of _ensure_public_link
MwBegin(m) ==
    /\ pc[m] = "idle"
    /\ budget[m] > 0
    /\ budget' = [budget EXCEPT ![m] = @ - 1]
    /\ \E path \in MwPaths :
         /\ mwPath' = [mwPath EXCEPT ![m] = path]
         /\ IF NamesWorkdir(path)
            THEN /\ call' = [call EXCEPT ![m] =
                        [arg |-> Join(TMP_PARENT, path[2]), seq |-> FALSE, ret |-> NoPath]]
                 /\ pc' = [pc EXCEPT ![m] = "check"]
            ELSE /\ call' = [call EXCEPT ![m] = NoCall]
                 /\ pc' = [pc EXCEPT ![m] = "serve"]
    /\ UNCHANGED <<fsVars, returned, raced, served, reqVars>>

\* response = await call_next(request)
MwServe(m) ==
    /\ pc[m] = "serve"
    /\ served' = [served EXCEPT ![m] = ServeStatus(mwPath[m])]
    /\ pc' = [pc EXCEPT ![m] = "idle"]
    /\ UNCHANGED <<fsVars, call, returned, raced, budget, mwPath, reqVars>>

\* ------------------------------------------------------------ specification

Next ==
    \/ \E r \in Reqs : Validate(r)
    \/ \E r \in Reqs : Setup(r)
    \/ \E r \in Reqs : Meta(r)
    \/ \E r \in Reqs : Download(r)
    \/ \E r \in Reqs : ResolveDuration(r)
    \/ \E r \in Reqs : Plan(r)
    \/ \E c \in Callers : EnsureCheck(c)
    \/ \E c \in Callers : EnsureSymlink(c)
    \/ \E c \in Callers : EnsureRecheck(c)
    \/ \E c \in Callers : EnsureCopy(c)
    \/ \E r \in Reqs : Extract(r)
    \/ \E r \in Reqs : Return(r)
    \/ \E m \in Mids : MwBegin(m)
    \/ \E m \in Mids : MwServe(m)

Spec == Init /\ [][Next]_vars
SpecConc == InitConc /\ [][Next]_vars
SpecRace == InitRace /\ [][Next]_vars

\* ------------------------------------------------------------------ claims

HasStage(r, st) == \E k \in 1..Len(stages[r]) : stages[r][k].st = st

\* C1: a request that completes successfully returns exactly `count`
\* ClipInfo; the i-th has index i, the i-th planned offset as its start and
\* the URL /clips/{workspace}/clip_{i as two digits}.mp4.
ResultsMatchPlan ==
    \A r \in Reqs :
        response[r].kind = "ok" =>
            /\ Len(response[r].body) = req[r].count
            /\ Len(starts[r]) = req[r].count
            /\ \A i \in 1..req[r].count :
                 /\ response[r].body[i].index = i
                 /\ response[r].body[i].start = starts[r][i]
                 /\ response[r].body[i].url =
                        [root |-> "clips", dir |-> workdir[r][Len(workdir[r])],
                         file |-> [stem |-> "clip_", num |-> <<i \div 10, i % 10>>,
                                   ext |-> ".mp4"]]

\* C1 witness: a request returned two clips.
ResultsMatchPlanWitness ==
    \E r \in Reqs : response[r].kind = "ok" /\ Len(response[r].body) = 2

\* C2: a sequential plan has `count` offsets, is non-decreasing, and every
\* rounded offset lies in [0, max(0, total - 60)].
SequentialPlanInRange ==
    \A r \in Reqs :
        (req[r].strategy # "random" /\ HasStage(r, "Planned")) =>
            /\ Len(starts[r]) = req[r].count
            /\ \A i \in 1..Len(starts[r]) :
                 /\ 0 <= starts[r][i]
                 /\ starts[r][i] <= Max(0, total[r] - 60 * Sec)
                 /\ i > 1 => starts[r][i - 1] <= starts[r][i]

\* C3: every URL of a returned ClipInfo, resolved against the public root,
\* locates an existing non-empty file, whether the workspace was published by
\* a symbolic link or by the copy fallback.
ReturnedUrlsResolve ==
    \A r \in Reqs :
        (response[r].kind = "ok" /\ pub[Basename(workdir[r])].kind \in {"symlink", "copy"}) =>
            \A i \in 1..Len(response[r].body) :
                response[r].body[i].url.file \in PublicFiles(response[r].body[i].url.dir)

\* C4: when the metadata gives no positive duration and the probe's stderr
\* has a Duration field, the total is the field's value in seconds (00:02:03.50
\* gives 123.5) and the request is planned, whatever the probe's exit status.
ProbeDurationResolved ==
    \A r \in Reqs :
        (probe[r].ran /\ probe[r].err.dur = <<<<0, 0>>, <<0, 2>>, <<0, 3>>, <<5, 0>>>>) =>
            /\ total[r] = 123 * Sec + 500 * Ms
            /\ pc[r] # "failed" \/ HasStage(r, "Planned")

\* C5: a non-zero exit of the i-th extraction fails the request with an error
\* carrying the tool's stderr, no clip list is returned, and no extraction is
\* invoked after the i-th.
ExtractionFailureAborts ==
    \A r \in Reqs :
        \A i \in 1..Len(cmds[r]) :
            cmds[r][i].exit # 0 =>
                /\ i = Len(cmds[r])
                /\ Len(results[r]) = i - 1
                /\ pc[r] = "failed"
                /\ response[r].kind = "error"
                /\ response[r].body = <<>>
                /\ response[r].detail = <<"Command failed", ExtractDiag>>

\* C5 witness: the second extraction failed after the first had produced a clip.
ExtractionFailureAbortsWitness ==
    \E r \in Reqs :
        /\ Len(cmds[r]) = 2
        /\ cmds[r][2].exit # 0
        /\ Len(results[r]) = 1

\* C6: the duration requested from the transcoder for a start offset s is
\* positive, at most 60 s, and s + duration <= total + 0.001.
RequestedDurationBounded ==
    \A r \in Reqs :
        \A i \in 1..Len(cmds[r]) :
            /\ cmds[r][i].ss = starts[r][i]
            /\ 0 < cmds[r][i].t
            /\ cmds[r][i].t <= 60 * Sec
            /\ cmds[r][i].ss + cmds[r][i].t <= total[r] + Ms

\* C6 witness: an extraction at the tail, where less than a millisecond of the
\* source is left after the offset and the 0.001 floor is what was requested.
RequestedDurationBoundedWitness ==
    \E r \in Reqs :
        \E i \in 1..Len(cmds[r]) :
            /\ total[r] - cmds[r][i].ss < Ms
            /\ cmds[r][i].t = Ms

\* C7: the stages of a finished request are Downloading, DurationResolved,
\* Planned, Extracting 1..count, Published, Done, in that order.
StagesInSpecOrder ==
    \A r \in Reqs :
        pc[r] = "done" =>
            stages[r] =
                <<Stage("Downloading", 0), Stage("DurationResolved", 0), Stage("Planned", 0)>>
                \o [i \in 1..req[r].count |-> Stage("Extracting", i)]
                \o <<Stage("Published", 0), Stage("Done", 0)>>

EnsureSteps == {"check", "symlink", "recheck", "copy"}

\* C8: a publish call for a workspace that begins after an earlier call for
\* the same workspace has returned gives the same path as that call, raises
\* nothing, and changes nothing under the public root.
SecondPublishChangesNothing ==
    [][\A c \in Callers :
          (pc[c] \in EnsureSteps /\ pc'[c] # pc[c] /\ call'[c].seq) =>
              /\ pub' = pub
              /\ pc'[c] \in EnsureSteps \cup {"extract", "serve"}
              /\ pc'[c] \notin EnsureSteps =>
                     call'[c].ret = returned[call[c].arg[Len(call[c].arg)]]]_vars

\* C8 witness: a retrieval's publish call has returned for a workspace that
\* an earlier call had already linked or copied.
SecondPublishWitness ==
    \E m \in Mids :
        /\ pc[m] = "serve"
        /\ call[m].seq
        /\ call[m].ret = returned[Basename(call[m].arg)]
        /\ pub[Basename(call[m].arg)].kind # "none"

\* C9: a request whose publish step failed (neither link nor copy was made)
\* runs no later stage and returns no successful clip list.
PublishFailureAborts ==
    \A r \in Reqs :
        (HasStage(r, "Published") /\ pub[Basename(workdir[r])].kind = "none") =>
            /\ cmds[r] = <<>>
            /\ response[r].kind # "ok"

\* C10: every offset of a random plan is some draw u times max_start, rounded
\* to the millisecond, and lies in [0, max_start].
RandomPlanInRange ==
    \A r \in Reqs :
        (req[r].strategy = "random" /\ HasStage(r, "Planned")) =>
            /\ Len(starts[r]) = req[r].count
            /\ \A i \in 1..Len(starts[r]) :
                 LET ms == Max(0, total[r] - 60 * Sec)
                     x == starts[r][i]
                 IN  /\ \E u \in Draws :
                            /\ x % Ms = 0
                            /\ 2 * (x - (u[1] * ms) \div u[2]) <= Ms
                            /\ 2 * ((u[1] * ms) \div u[2] - x) <= Ms
                     /\ 0 <= x
                     /\ x <= ms

\* C11: no two requests ever hold the same workspace, and no ClipInfo of one
\* request has the URL of a ClipInfo of another.
WorkspacesDistinct ==
    \A r1 \in Reqs : \A r2 \in Reqs \ {r1} :
        (workdir[r1] # NoPath /\ workdir[r2] # NoPath) =>
            /\ workdir[r1] # workdir[r2]
            /\ \A i \in 1..Len(results[r1]) : \A j \in 1..Len(results[r2]) :
                   results[r1][i].url # results[r2][j].url

\* C11 witness: two requests have each produced a clip.
WorkspacesDistinctWitness ==
    \E r1 \in Reqs : \E r2 \in Reqs \ {r1} :
        Len(results[r1]) >= 1 /\ Len(results[r2]) >= 1

\* the manual start of a payload, 0 when none was given
BaseOf(p) == IF p.start # <<>> THEN p.start[1] ELSE 0

NoCallRunning(n) ==
    \A c \in Callers : ~(pc[c] \in EnsureSteps /\ call[c].arg = Join(TMP_PARENT, n))

\* C13 as stated: once two publish calls that raced for one name have both
\* returned, exactly one public entry exists for it.
RacedPublishOneEntry ==
    \A n \in raced : NoCallRunning(n) => pub[n].kind \in {"symlink", "copy"}

\* C13, the part that holds: no step of a publish call raises; a step creates
\* an entry only where none was, so the loser of a race creates nothing; and once the racing
\* calls have returned the entry exists if the filesystem permits the link, or
\* permits the copy and the pipeline owning the workspace has published it.
RacedPublishAtMostOnce ==
    [][/\ \A c \in Callers :
             (pc[c] \in EnsureSteps /\ pc'[c] # pc[c]) =>
                 /\ pc'[c] \in EnsureSteps \cup {"extract", "serve"}
                 /\ \A n \in Names :
                        pub'[n] # pub[n] =>
                            /\ pub[n].kind = "none"
                            /\ call[c].arg = Join(TMP_PARENT, n)
       /\ \A n \in raced' :
             (NoCallRunning(n)'
                /\ \/ fsSymlink
                   \/ fsCopy /\ \E r \in Reqs : /\ workdir[r] = Join(TMP_PARENT, n)
                                                /\ HasStage(r, "Published")') =>
                 pub'[n].kind \in {"symlink", "copy"}]_vars

\* C13, the race itself: two calls raced for a name, both have returned, and the name
\* has its entry.
RacedPublishWitness ==
    \E n \in raced : NoCallRunning(n) /\ pub[n].kind \in {"symlink", "copy"}

\* the download was attempted and left no source file
DownloadFailed(r) ==
    HasStage(r, "Downloading") /\ SourceFile \notin DirOf(workdir[r]).files

\* the metadata carries no positive number and the probe ran without printing
\* a positive duration
DurationUnknown(r) ==
    /\ info[r].kind # "num" \/ info[r].v <= 0
    /\ probe[r].ran
    /\ ~HasDuration(probe[r].err) \/ ParseDuration(probe[r].err) <= 0

NothingDeleted ==
    [][/\ \A n \in Names :
             /\ dirs[n].exists =>
                    dirs'[n].exists /\ dirs[n].files \subseteq dirs'[n].files
             /\ pub[n].kind # "none" =>
                    pub'[n].kind = pub[n].kind /\ pub[n].files \subseteq pub'[n].files
       /\ \A r \in Reqs :
             (pc[r] = "extract" /\ pc'[r] = "failed") =>
                 /\ DirOf(workdir[r])'.exists
                 /\ SourceFile \in DirOf(workdir[r])'.files
                 /\ \A k \in 1..Len(results[r]) :
                        OutName(k - 1) \in DirOf(workdir[r])'.files]_vars

\* C15 witness: a request failed at its second extraction and the source and
\* the first clip are still in its workspace.
NothingDeletedWitness ==
    \E r \in Reqs : /\ pc[r] = "failed"
                    /\ Len(cmds[r]) = 2 /\ Len(results[r]) = 1
                    /\ {SourceFile, OutName(0)} \subseteq DirOf(workdir[r]).files

\* the duration step of request r has run
DurationStepDone(r) ==
    /\ workdir[r] # NoPath
    /\ SourceFile \in DirOf(workdir[r]).files
    /\ pc[r] # "duration"

\* C16: a positive metadata duration is the resolved total and the probe is
\* not run; the probe runs only when the metadata duration is absent, zero,
\* negative or not a number.
MetadataFirst ==
    \A r \in Reqs :
        /\ (DurationStepDone(r) /\ info[r].kind = "num" /\ info[r].v > 0) =>
               total[r] = info[r].v /\ ~probe[r].ran
        /\ probe[r].ran =>
               \/ info[r].kind \in {"none", "nodur", "bad"}
               \/ info[r].kind = "num" /\ info[r].v <= 0

\* C16 witness: a request resolved its duration from positive metadata.
MetadataFirstWitness ==
    \E r \in Reqs : /\ DurationStepDone(r)
                    /\ info[r].kind = "num" /\ info[r].v > 0
                    /\ total[r] = info[r].v /\ HasStage(r, "DurationResolved")

\* C17 as stated: every entry under the public root is named after a
\* workspace that some clip request allocated.
PublicEntriesAllocated ==
    \A n \in Names :
        pub[n].kind # "none" => \E r \in Reqs : workdir[r] = Join(TMP_PARENT, n)

\* C18 as stated: every clip a successful request returns reports a duration
\* that is positive and is the duration ffmpeg was asked for with -t.
ReportedIsRequested ==
    \A r \in Reqs :
        pc[r] = "done" =>
            \A k \in 1..Len(response[r].body) :
                /\ response[r].body[k].duration > 0
                /\ response[r].body[k].duration = cmds[r][k].t

\* C18 amended: the reported duration is positive and is min(60, total - start);
\* it is the requested duration when total - start is at least a millisecond,
\* and otherwise it is below the millisecond that was requested.
ReportedIsRequestedAboveMs ==
    \A r \in Reqs :
        pc[r] = "done" =>
            \A k \in 1..Len(response[r].body) :
                LET c == response[r].body[k]
                    left == total[r] - c.start
                IN  /\ c.duration > 0
                    /\ c.duration = Min(OneMinute, left)
                    /\ left >= MinDuration => c.duration = cmds[r][k].t
                    /\ left < MinDuration =>
                           c.duration = left /\ cmds[r][k].t = MinDuration

\* C18 witness: a returned clip whose start is a full minute before the end
\* reports the 60 seconds that were requested.
ReportedIsRequestedWitness ==
    \E r \in Reqs :
        /\ pc[r] = "done"
        /\ \E k \in 1..Len(response[r].body) :
               /\ total[r] - response[r].body[k].start > OneMinute
               /\ response[r].body[k].duration = OneMinute
               /\ cmds[r][k].t = OneMinute

\* the body of request r breaks a constraint of ClipRequest
OutOfRange(r) ==
    /\ req[r] # NoReq
    /\ \/ req[r].count < 1
       \/ req[r].count > 20
       \/ req[r].start # <<>> /\ req[r].start[1] < 0

\* C19: a request whose count is outside 1..20 or whose start is negative
\* never gets past validation: no workspace, no metadata lookup or download,
\* no call of _ensure_public_link, and the only answer it gets is 422.
RejectedAtBoundary ==
    \A r \in Reqs :
        OutOfRange(r) =>
            /\ pc[r] \in {"received", "rejected"}
            /\ workdir[r] = NoPath
            /\ info[r] = NoInfo /\ stages[r] = <<>>
            /\ call[r] = NoCall
            /\ response[r] \in {NoResponse, Error(422, <<"validation error">>)}

\* C19 witness: a request with a negative start and a count in range has been
\* rejected.
RejectedAtBoundaryWitness ==
    \E r \in Reqs : /\ pc[r] = "rejected"
                    /\ req[r].count \in 1..20
                    /\ req[r].start # <<>> /\ req[r].start[1] < 0

====
